---- MODULE Spec2Model ----
(***************************************************************************)
(* Verification model of the autocorrect engine: the edit-distance         *)
(* primitive (helpers.py), the Trie (trie.py), the BK-tree (bktree.py),   *)
(* the Levenshtein automaton (levenshtein.py) and the editor's suggestion  *)
(* handler (gui.py).                                                       *)
(*                                                                         *)
(* A word is a sequence of one-character strings.  Python lists and dicts  *)
(* (which keep insertion order) are sequences; Python sets are sets.       *)
(***************************************************************************)
EXTENDS Integers, Sequences, FiniteSets, TLC

VARIABLES
    trie,     \* the Trie: node (named by its path from the root) -> _TrieNode
    bk,       \* the BKTree: sequence of _BKNode, bk[1] is the root
    vocab,    \* the set of tokens fed to Trie.insert / BKTree so far
    call,     \* the last operation called on the structures, with its result
    query,    \* LevenshteinNFA.query of the automaton being stepped
    D,        \* LevenshteinNFA.D of the automaton being stepped
    states,   \* the automaton's state set after the input read so far
    raw,      \* the same with NFA.simplify (the identity) in place of the override
    inputs,   \* the input characters read so far
    which,    \* ACHandler's backend: "lv" or "bk"
    cur_word, \* the text between the mark 'start' and the cursor
    _prev_word,   \* ACHandler._prev_word
    _suggestions  \* ACHandler._suggestions

\* the editor's handler
gui == <<which, cur_word, _prev_word, _suggestions>>

vars == <<trie, bk, vocab, call, query, D, states, raw, inputs, gui>>

(***************************************************************************)
(* Bounds of the model.                                                    *)
(***************************************************************************)
MaxLen == 2      \* longest vocabulary word / query of the structure specs
MaxWords == 3    \* distinct tokens fed to the structures
MaxTol == 2      \* largest tolerance / edit budget
MaxLim == 2      \* largest result limit
MaxQuery == 3    \* longest query of the stepped automaton
MaxInput == 3    \* longest input read by the stepped automaton
MaxLong == 7     \* longest query given to the backends' get_suggestions
MaxDict == 2     \* longest dictionary list loaded by the editor's handler

Alphabet == {"a", "b", "A"}

\* All words over the alphabet of length at most n.
Strs(n) == UNION {[1..k -> Alphabet] : k \in 0..n}

Words == Strs(MaxLen)

\* str.lower(), character by character.
lower_char(c) == IF c = "A" THEN "a" ELSE c

lower(w) == [i \in 1..Len(w) |-> lower_char(w[i])]

Min(a, b) == IF a <= b THEN a ELSE b

Max(a, b) == IF a >= b THEN a ELSE b

abs(x) == IF x < 0 THEN 0 - x ELSE x

\* x in a Python list
InSeq(x, s) == \E i \in 1..Len(s) : s[i] = x

SeqSet(s) == {s[i] : i \in 1..Len(s)}

(***************************************************************************)
(* helpers.levenshtein: single-row dynamic programming.  dp[d] of the      *)
(* code is dp[d + 1] here.                                                 *)
(***************************************************************************)
\* the substitution cost (s1[i] != s2[j])
subst_cost(a, b) == IF a # b THEN 1 ELSE 0

\* for d in range(len(dp) - 1, 0, -1): dp[d] = min(dp[d] + 1, dp[d-1] + (s1[i] != s2[j]))
RECURSIVE lev_down(_, _, _, _, _)
lev_down(dp, s1, s2, i, d) ==
    IF d < 1 THEN dp
    ELSE lev_down([dp EXCEPT ![d + 1] =
                       Min(dp[d + 1] + 1, dp[d] + subst_cost(s1[i + 1], s2[d]))],
                  s1, s2, i, d - 1)

\* for d in range(1, len(dp)): dp[d] = min(dp[d], dp[d - 1] + 1)
RECURSIVE lev_up(_, _)
lev_up(dp, d) ==
    IF d >= Len(dp) THEN dp
    ELSE lev_up([dp EXCEPT ![d + 1] = Min(dp[d + 1], dp[d] + 1)], d + 1)

\* for i in range(len(s1)): ...
RECURSIVE lev_rows(_, _, _, _)
lev_rows(dp, s1, s2, i) ==
    IF i >= Len(s1) THEN dp
    ELSE lev_rows(lev_up([lev_down(dp, s1, s2, i, Len(dp) - 1) EXCEPT ![1] = i + 1], 1),
                  s1, s2, i + 1)

\* a faulty variant of levenshtein: dp starts as zeros, not as range(len(s2) + 1)
levenshtein_zero_row(s1, s2) ==
    LET dp == lev_rows([d \in 1..(Len(s2) + 1) |-> 0], s1, s2, 0)
    IN  dp[Len(dp)]

levenshtein(s1, s2) ==
    LET dp == lev_rows([d \in 1..(Len(s2) + 1) |-> d - 1], s1, s2, 0)
    IN  dp[Len(dp)]

(***************************************************************************)
(* LevenshteinNFA.  A state is <<offset, d>>.                              *)
(***************************************************************************)
initial_states(Dmax) == {<<0, Dmax>>}

accept(Q, state) == Len(Q) - state[1] <= state[2]

SetMin(S) == CHOOSE x \in S : \A y \in S : x <= y

accept_best(Q, Dmax, sts) ==
    LET used == {Dmax - s[2] : s \in {s \in sts : accept(Q, s)}}
    IN  IF used = {} THEN -1 ELSE SetMin(used)

\* a faulty variant of transitions: no substitution edge
transitions_no_subst(Q, state, c) ==
    LET offset == state[1]
        d == state[2]
    IN  (IF d > 0 THEN {<<offset, d - 1>>} ELSE {})
        \cup {<<offset + k + 1, d - k>> :
                k \in {k \in 0..(Min(d + 1, Len(Q) - offset) - 1) : c = Q[offset + k + 1]}}

transitions(Q, state, c) ==
    LET offset == state[1]
        d == state[2]
    IN  (IF d > 0 THEN {<<offset, d - 1>>, <<offset + 1, d - 1>>} ELSE {})
        \cup {<<offset + k + 1, d - k>> :
                k \in {k \in 0..(Min(d + 1, Len(Q) - offset) - 1) : c = Q[offset + k + 1]}}

\* a faulty variant of implies: the offsets' difference taken without abs
implies_signed(state1, state2) ==
    IF state2[2] < 0 THEN TRUE
    ELSE state1[2] - state2[2] >= state1[1] - state2[1]

\* a faulty variant of implies: the budget gap must exceed the offset gap
implies_strict(state1, state2) ==
    IF state2[2] < 0 THEN TRUE
    ELSE state1[2] - state2[2] > abs(state1[1] - state2[1])

\* LevenshteinNFA.simplify._implies
implies(state1, state2) ==
    IF state2[2] < 0 THEN TRUE
    ELSE state1[2] - state2[2] >= abs(state1[1] - state2[1])

is_useful(sts, state) ==
    \A state2 \in sts : ~(state # state2 /\ implies(state2, state))

\* LevenshteinNFA.simplify
simplify(sts) == {s \in sts : is_useful(sts, s)}

\* NFA.simplify, the base class's identity
simplify_base(sts) == sts

\* NFA.step with LevenshteinNFA.simplify
step(Q, sts, c) == simplify(UNION {transitions(Q, s, c) : s \in sts})

\* NFA.step with the base class's simplify: no state is ever removed
step_base(Q, sts, c) == simplify_base(UNION {transitions(Q, s, c) : s \in sts})

RECURSIVE step_all(_, _, _)
step_all(Q, sts, text) ==
    IF text = <<>> THEN sts
    ELSE step_all(Q, step(Q, sts, Head(text)), Tail(text))

\* levenshtein_using_nfa(s1, s2, D)
levenshtein_using_nfa(s1, s2, Dmax) ==
    accept_best(s2, Dmax, step_all(s2, initial_states(Dmax), s1))

(***************************************************************************)
(* Trie.  A node is named by the path of edge keys leading to it; the      *)
(* node children[key] of the node named p is the node named Append(p,key). *)
(* children is the sequence of the dict's keys in insertion order.         *)
(***************************************************************************)
None == "None"

\* _TrieNode.__init__
TrieNode(letter) == [letter |-> letter, children |-> <<>>, is_word |-> FALSE]

TrieRoot == <<>>

\* Trie.__init__
TrieInit == (TrieRoot :> TrieNode(None))

\* the body of the for loop of Trie.insert, from index i (1-based)
RECURSIVE insert_loop(_, _, _, _)
insert_loop(t, word, i, curr_node) ==
    IF i > Len(word) THEN t
    ELSE LET letter == word[i]
             child == Append(curr_node, letter)
             t1 == IF ~InSeq(letter, t[curr_node].children)
                   THEN [t EXCEPT ![curr_node].children = Append(@, letter)]
                            @@ (child :> TrieNode(letter))
                   ELSE t
             t2 == IF i = Len(word) THEN [t1 EXCEPT ![child].is_word = TRUE] ELSE t1
         IN  insert_loop(t2, word, i + 1, child)

\* a faulty variant of Trie.insert: is_word is assigned at every node of the
\* path (curr_node.is_word = (i == len(word) - 1))
RECURSIVE insert_loop_assigning(_, _, _, _)
insert_loop_assigning(t, word, i, curr_node) ==
    IF i > Len(word) THEN t
    ELSE LET letter == word[i]
             child == Append(curr_node, letter)
             t1 == IF ~InSeq(letter, t[curr_node].children)
                   THEN [t EXCEPT ![curr_node].children = Append(@, letter)]
                            @@ (child :> TrieNode(letter))
                   ELSE t
             t2 == [t1 EXCEPT ![child].is_word = (i = Len(word))]
         IN  insert_loop_assigning(t2, word, i + 1, child)

trie_insert_assigning(t, word) == insert_loop_assigning(t, lower(word), 1, TrieRoot)

\* a faulty variant of Trie.insert: the word is not lower-cased
trie_insert_verbatim(t, word) == insert_loop(t, word, 1, TrieRoot)

\* Trie.insert
trie_insert(t, word) == insert_loop(t, lower(word), 1, TrieRoot)

RECURSIVE lookup_loop(_, _, _, _)
lookup_loop(t, s, i, curr_node) ==
    IF i > Len(s) THEN t[curr_node].is_word
    ELSE IF ~InSeq(s[i], t[curr_node].children) THEN FALSE
    ELSE lookup_loop(t, s, i + 1, Append(curr_node, s[i]))

\* a faulty variant of Trie.lookup_word: the string is not lower-cased
lookup_word_verbatim(t, s) == lookup_loop(t, s, 1, TrieRoot)

\* Trie.lookup_word
lookup_word(t, s) == lookup_loop(t, lower(s), 1, TrieRoot)

\* _TrieNode.all_words_helper; all_words_from is its for loop from the k-th child
RECURSIVE all_words_helper(_, _, _), all_words_from(_, _, _, _)
all_words_helper(t, node, string_so_far) ==
    (IF t[node].is_word THEN <<string_so_far>> ELSE <<>>)
        \o all_words_from(t, node, string_so_far, 1)

all_words_from(t, node, string_so_far, k) ==
    IF k > Len(t[node].children) THEN <<>>
    ELSE LET child == t[node].children[k]
         IN  all_words_helper(t, Append(node, child), Append(string_so_far, child))
                 \o all_words_from(t, node, string_so_far, k + 1)

\* Trie.all_words
all_words(t) == all_words_helper(t, TrieRoot, <<>>)

\* "for char in prefix: if char not in node.children: return ...": the node
\* reached, or found = FALSE
RECURSIVE walk(_, _, _, _)
walk(t, s, i, node) ==
    IF i > Len(s) THEN [found |-> TRUE, node |-> node]
    ELSE IF ~InSeq(s[i], t[node].children) THEN [found |-> FALSE, node |-> node]
    ELSE walk(t, s, i + 1, Append(node, s[i]))

\* the while loop of Trie.complete_from_prefix
RECURSIVE complete_loop(_, _, _, _)
complete_loop(t, prefix, node, suffix) ==
    IF t[node].is_word THEN prefix \o suffix
    ELSE IF Len(t[node].children) = 0 THEN <<>>
    ELSE LET next == Append(node, t[node].children[1])
         IN  complete_loop(t, prefix, next, Append(suffix, t[next].letter))

\* a faulty variant of complete_from_prefix: the last-inserted child is followed
RECURSIVE complete_loop_last(_, _, _, _)
complete_loop_last(t, prefix, node, suffix) ==
    IF t[node].is_word THEN prefix \o suffix
    ELSE IF Len(t[node].children) = 0 THEN <<>>
    ELSE LET next == Append(node, t[node].children[Len(t[node].children)])
         IN  complete_loop_last(t, prefix, next, Append(suffix, t[next].letter))

complete_from_prefix_last(t, prefix) ==
    LET w == walk(t, prefix, 1, TrieRoot)
    IN  IF ~w.found THEN <<>> ELSE complete_loop_last(t, prefix, w.node, <<>>)

\* Trie.complete_from_prefix
complete_from_prefix(t, prefix) ==
    LET w == walk(t, prefix, 1, TrieRoot)
    IN  IF ~w.found THEN <<>> ELSE complete_loop(t, prefix, w.node, <<>>)

\* the while loop of Trie.get_suggestions; queue holds <<suf, node>>
RECURSIVE suggest_loop(_, _, _, _, _)
suggest_loop(t, word, lim, queue, sug) ==
    IF queue = <<>> \/ ~(Len(sug) < lim) THEN sug
    ELSE LET suf == Head(queue)[1]
             node == Head(queue)[2]
             ch == t[node].children
         IN  suggest_loop(t, word, lim,
                 Tail(queue) \o [k \in 1..Len(ch) |-> <<Append(suf, ch[k]), Append(node, ch[k])>>],
                 IF t[node].is_word THEN Append(sug, word \o suf) ELSE sug)

\* a faulty variant of the loop of Trie.get_suggestions: the queue popped at the
\* end children were pushed on (depth first)
RECURSIVE suggest_loop_lifo(_, _, _, _, _)
suggest_loop_lifo(t, word, lim, queue, sug) ==
    IF queue = <<>> \/ ~(Len(sug) < lim) THEN sug
    ELSE LET suf == Head(queue)[1]
             node == Head(queue)[2]
             ch == t[node].children
         IN  suggest_loop_lifo(t, word, lim,
                 [k \in 1..Len(ch) |-> <<Append(suf, ch[k]), Append(node, ch[k])>>]
                     \o Tail(queue),
                 IF t[node].is_word THEN Append(sug, word \o suf) ELSE sug)

\* a faulty variant of Trie.get_suggestions: depth first
trie_get_suggestions_dfs(t, word, lim) ==
    LET w == walk(t, word, 1, TrieRoot)
    IN  IF ~w.found THEN <<>> ELSE suggest_loop_lifo(t, word, lim, <<<<<<>>, w.node>>>>, <<>>)

\* a faulty variant of Trie.get_suggestions: the loop runs while len(sug) <= lim
trie_get_suggestions_over(t, word, lim) ==
    LET w == walk(t, word, 1, TrieRoot)
    IN  IF ~w.found THEN <<>> ELSE suggest_loop(t, word, lim + 1, <<<<<<>>, w.node>>>>, <<>>)

\* Trie.get_suggestions
trie_get_suggestions(t, word, lim) ==
    LET w == walk(t, word, 1, TrieRoot)
    IN  IF ~w.found THEN <<>> ELSE suggest_loop(t, word, lim, <<<<<<>>, w.node>>>>, <<>>)

(***************************************************************************)
(* BK-tree.  A node is its index in bk; children is the dict's sequence of *)
(* <<distance key, child node>> items in insertion order.                  *)
(***************************************************************************)
\* _BKNode.__init__
BKNode(word) == [word |-> word, children |-> <<>>]

\* BKTree.__init__
BKTree(root_word) == <<BKNode(root_word)>>

\* dist in curr.children
has_child(node, dist) == \E i \in 1..Len(node.children) : node.children[i][1] = dist

\* curr.children[dist]
child_at(node, dist) ==
    node.children[CHOOSE i \in 1..Len(node.children) : node.children[i][1] = dist][2]

\* the while loop of BKTree.insert: the node and distance it ends with
RECURSIVE bk_descend(_, _, _)
bk_descend(b, curr, word) ==
    LET dist == levenshtein(b[curr].word, word)
    IN  IF has_child(b[curr], dist) THEN bk_descend(b, child_at(b[curr], dist), word)
        ELSE <<curr, dist>>

\* faulty variants of BKTree.insert: without the dist == 0 return; without the
\* empty-word return
bk_insert_dup(b, word) ==
    IF word = <<>> THEN b
    ELSE LET end == bk_descend(b, 1, word)
         IN  Append([b EXCEPT ![end[1]].children = Append(@, <<end[2], Len(b) + 1>>)],
                    BKNode(word))

bk_insert_empty(b, word) ==
    LET end == bk_descend(b, 1, word)
    IN  IF end[2] = 0 THEN b
        ELSE Append([b EXCEPT ![end[1]].children = Append(@, <<end[2], Len(b) + 1>>)],
                    BKNode(word))

\* a faulty variant of BKTree.insert: no descent on a collision, the new node
\* is hung on the root
bk_insert_shallow(b, word) ==
    IF word = <<>> THEN b
    ELSE LET dist == levenshtein(b[1].word, word)
         IN  IF dist = 0 THEN b
             ELSE Append([b EXCEPT ![1].children = Append(@, <<dist, Len(b) + 1>>)],
                         BKNode(word))

\* BKTree.insert
bk_insert(b, word) ==
    IF word = <<>> THEN b
    ELSE LET end == bk_descend(b, 1, word)
         IN  IF end[2] = 0 THEN b
             ELSE Append([b EXCEPT ![end[1]].children = Append(@, <<end[2], Len(b) + 1>>)],
                         BKNode(word))

\* faulty variants of in_window: a strict lower bound; the tolerance left out above
in_window_strict(dist, tolerance, child_dist) ==
    dist - tolerance < child_dist /\ child_dist <= dist + tolerance

in_window_low(dist, tolerance, child_dist) ==
    dist - tolerance <= child_dist /\ child_dist <= dist

\* the edge-window condition of similar_words and _similar_helper
in_window(dist, tolerance, child_dist) ==
    dist - tolerance <= child_dist /\ child_dist <= dist + tolerance

\* _BKNode.similar_words; similar_from is its for loop from the k-th child
RECURSIVE similar_words(_, _, _, _), similar_from(_, _, _, _, _, _)
similar_words(b, node, word, tolerance) ==
    LET dist == levenshtein(b[node].word, word)
    IN  (IF dist <= tolerance THEN <<b[node].word>> ELSE <<>>)
            \o similar_from(b, node, word, tolerance, dist, 1)

similar_from(b, node, word, tolerance, dist, k) ==
    IF k > Len(b[node].children) THEN <<>>
    ELSE LET item == b[node].children[k]
         IN  (IF in_window(dist, tolerance, item[1])
              THEN similar_words(b, item[2], word, tolerance) ELSE <<>>)
                 \o similar_from(b, node, word, tolerance, dist, k + 1)

\* BKTree.get_similar_words
bk_get_similar_words(b, word, tolerance) == similar_words(b, 1, word, tolerance)

\* _BKNode._similar_helper, with <<word, distance>> items
RECURSIVE similar_helper(_, _, _, _), similar_helper_from(_, _, _, _, _, _)
similar_helper(b, node, word, tolerance) ==
    LET dist == levenshtein(b[node].word, word)
    IN  (IF dist <= tolerance THEN <<<<b[node].word, dist>>>> ELSE <<>>)
            \o similar_helper_from(b, node, word, tolerance, dist, 1)

similar_helper_from(b, node, word, tolerance, dist, k) ==
    IF k > Len(b[node].children) THEN <<>>
    ELSE LET item == b[node].children[k]
         IN  (IF in_window(dist, tolerance, item[1])
              THEN similar_helper(b, item[2], word, tolerance) ELSE <<>>)
                 \o similar_helper_from(b, node, word, tolerance, dist, k + 1)

\* list.sort(key = item[pos]): a stable sort, here by insertion
RECURSIVE sort_insert(_, _, _), sort_by(_, _)
sort_insert(sorted, x, pos) ==
    IF sorted = <<>> THEN <<x>>
    ELSE IF sorted[Len(sorted)][pos] <= x[pos] THEN Append(sorted, x)
    ELSE Append(sort_insert(SubSeq(sorted, 1, Len(sorted) - 1), x, pos), sorted[Len(sorted)])

sort_by(lst, pos) ==
    IF lst = <<>> THEN <<>>
    ELSE sort_insert(sort_by(SubSeq(lst, 1, Len(lst) - 1), pos), lst[Len(lst)], pos)

\* a faulty variant of get_similar_words_ordered: the list left in traversal order
bk_get_similar_words_unsorted(b, word, tolerance) ==
    LET lst == similar_helper(b, 1, word, tolerance)
    IN  [i \in 1..Len(lst) |-> lst[i][1]]

\* _BKNode.similar_words_ordered / BKTree.get_similar_words_ordered
bk_get_similar_words_ordered(b, word, tolerance) ==
    LET lst == sort_by(similar_helper(b, 1, word, tolerance), 2)
    IN  [i \in 1..Len(lst) |-> lst[i][1]]

(***************************************************************************)
(* LevenshteinNFA over a Trie.                                             *)
(***************************************************************************)
\* LevenshteinNFA._helper_intersection, with <<edits, word>> items;
\* intersection_from is its for loop from the k-th child
RECURSIVE helper_intersection(_, _, _, _, _, _), intersection_from(_, _, _, _, _, _, _)
helper_intersection(t, Q, Dmax, sts, node, string_so_far) ==
    IF sts = {} THEN <<>>
    ELSE LET least_num_edits == accept_best(Q, Dmax, sts)
         IN  (IF t[node].is_word /\ least_num_edits # -1
              THEN <<<<least_num_edits, string_so_far>>>> ELSE <<>>)
                 \o intersection_from(t, Q, Dmax, sts, node, string_so_far, 1)

intersection_from(t, Q, Dmax, sts, node, string_so_far, k) ==
    IF k > Len(t[node].children) THEN <<>>
    ELSE LET child == t[node].children[k]
             child_node == Append(node, child)
         IN  helper_intersection(t, Q, Dmax, step(Q, sts, child), child_node,
                                 Append(string_so_far, t[child_node].letter))
                 \o intersection_from(t, Q, Dmax, sts, node, string_so_far, k + 1)

\* LevenshteinNFA.intersection_with_trie_dfs
intersection_with_trie_dfs(t, Q, Dmax) ==
    sort_by(helper_intersection(t, Q, Dmax, initial_states(Dmax), TrieRoot, <<>>), 1)

\* LevenshteinNFA.get_similar_words
\* a faulty variant of get_similar_words: every negative N returns all
nfa_get_similar_words_neg(t, Q, Dmax, N) ==
    LET res == intersection_with_trie_dfs(t, Q, Dmax)
    IN  IF N < 0 \/ N >= Len(res) THEN [i \in 1..Len(res) |-> res[i][2]]
        ELSE [i \in 1..N |-> res[i][2]]

\* LevenshteinNFA.get_similar_words
nfa_get_similar_words(t, Q, Dmax, N) ==
    LET res == intersection_with_trie_dfs(t, Q, Dmax)
    IN  IF N = -1 \/ N >= Len(res) THEN [i \in 1..Len(res) |-> res[i][2]]
        ELSE [i \in 1..N |-> res[i][2]]


(***************************************************************************)
(* The Backend interface: get_suggestions of the BK-tree and of the        *)
(* automaton over the trie.                                                *)
(***************************************************************************)
\* a faulty variant of tol: without the max(..., 1)
tol_no_floor(word) == Min(3, Len(word) \div 2)

\* helpers.tol
tol(word) == Min(3, Max(Len(word) \div 2, 1))

\* lst[:lim]: a negative lim counts from the end
slice_to(lst, lim) ==
    IF lim >= 0 THEN SubSeq(lst, 1, Min(lim, Len(lst)))
    ELSE SubSeq(lst, 1, Max(Len(lst) + lim, 0))

\* a faulty variant of BKTree.get_suggestions: results[:lim + 1]
bk_get_suggestions_over(b, word, lim) ==
    slice_to(bk_get_similar_words_ordered(b, word, tol(word)), lim + 1)

\* BKTree.get_suggestions
bk_get_suggestions(b, word, lim) ==
    slice_to(bk_get_similar_words_ordered(b, word, tol(word)), lim)

\* LevenshteinBackend.get_suggestions
lv_get_suggestions(t, word, lim) == nfa_get_similar_words(t, word, tol(word), lim)

(***************************************************************************)
(* The editor's suggestion handler (gui.ACHandler).                        *)
(***************************************************************************)
\* make_trie(words), from the i-th word
RECURSIVE make_trie_from(_, _, _)
make_trie_from(t, words, i) ==
    IF i > Len(words) THEN t ELSE make_trie_from(trie_insert(t, words[i]), words, i + 1)

make_trie(words) == make_trie_from(TrieInit, words, 1)

\* make_bktree(words): BKTree(words[0]), then words[1:] inserted
RECURSIVE make_bktree_from(_, _, _)
make_bktree_from(b, words, i) ==
    IF i > Len(words) THEN b ELSE make_bktree_from(bk_insert(b, words[i]), words, i + 1)

make_bktree(words) == make_bktree_from(BKTree(words[1]), words, 2)

\* str.isalnum of a one-character string: the letters are, "." is not
isalnum(c) == c \in Alphabet

\* self._backend.get_suggestions(word, lim), the backend chosen by `which`
backend_get_suggestions(w, t, b, word, lim) ==
    IF w = "lv" THEN lv_get_suggestions(t, word, lim) ELSE bk_get_suggestions(b, word, lim)

\* a faulty variant of _update_suggestions: corrections are offered for a
\* correctly spelled word too
update_suggestions_correcting(w, t, b, cur, prev, sug) ==
    IF cur = prev THEN <<prev, sug>>
    ELSE <<cur,
           IF cur = <<>> \/ (Len(cur) = 1 /\ ~isalnum(cur[1])) THEN <<>>
           ELSE trie_get_suggestions(t, cur, 3) \o backend_get_suggestions(w, t, b, cur, 3)>>

\* ACHandler._update_suggestions: the new <<_prev_word, _suggestions>>
update_suggestions(w, t, b, cur, prev, sug) ==
    IF cur = prev THEN <<prev, sug>>
    ELSE <<cur,
           IF cur = <<>> \/ (Len(cur) = 1 /\ ~isalnum(cur[1])) THEN <<>>
           ELSE LET completions == trie_get_suggestions(t, cur, 3)
                    corrections == IF ~lookup_word(t, cur)
                                   THEN backend_get_suggestions(w, t, b, cur, 3)
                                   ELSE <<>>
                IN  completions \o corrections>>

\* event.keysym in '123456', for the keysyms of one key
keysym_is_choice(keysym) == keysym \in {"1", "2", "3", "4", "5", "6"}

\* int(event.keysym)
keysym_int(keysym) ==
    CASE keysym = "1" -> 1 [] keysym = "2" -> 2 [] keysym = "3" -> 3
      [] keysym = "4" -> 4 [] keysym = "5" -> 5 [] keysym = "6" -> 6

(***************************************************************************)
(* The state machine.                                                      *)
(*                                                                         *)
(* The structures: both are built from one token list (ACHandler.__init__  *)
(* loads the same dictionary into the Trie and the BK-tree; make_trie and  *)
(* make_bktree insert the tokens one at a time), then queried.  call       *)
(* records the operation in progress: an insert with the structures as     *)
(* they were before it, a query with its arguments and its result.  The    *)
(* program is single-threaded: the next operation starts once the caller   *)
(* has taken the result (Return).                                          *)
(***************************************************************************)
Tols == -1..MaxTol

Lims == -1..MaxLim

NoCall == [op |-> "none"]

InsertCall(w) ==
    [op |-> "insert", word |-> w, old_trie |-> trie, old_bk |-> bk, old_vocab |-> vocab]

QueryCall(op, w, n, lim, val) == [op |-> op, word |-> w, n |-> n, lim |-> lim, val |-> val]

\* no automaton is being stepped
NFAIdle == query = <<>> /\ D = 0 /\ states = {} /\ raw = {} /\ inputs = <<>>

\* no editor is open
GUIIdle == which = "bk" /\ cur_word = <<>> /\ _prev_word = <<>> /\ _suggestions = <<>>

\* make_trie(words) and make_bktree(words) after words[0]
Init ==
    /\ \E w \in Words :
          /\ trie = trie_insert(TrieInit, w)
          /\ bk = BKTree(w)
          /\ vocab = {w}
    /\ call = NoCall
    /\ NFAIdle
    /\ GUIIdle

\* the next token of the list: trie.insert(word) and tree.insert(each)
InsertWord(w) ==
    /\ call = NoCall
    /\ trie' = trie_insert(trie, w)
    /\ bk' = bk_insert(bk, w)
    /\ vocab' = vocab \cup {w}
    /\ call' = InsertCall(w)
    /\ UNCHANGED <<query, D, states, raw, inputs, gui>>

\* a token list of at most MaxWords different tokens
Insert(w) == Cardinality(vocab \cup {w}) <= MaxWords /\ InsertWord(w)

\* a query leaves everything but its result alone
\* a faulty variant of a query: the queried word is left behind in the trie
ReturnsStoring(c) ==
    /\ call = NoCall
    /\ call' = c
    /\ trie' = trie_insert(trie, c.word)
    /\ UNCHANGED <<bk, vocab, query, D, states, raw, inputs, gui>>

\* a query: nothing is assigned but the result handed to the caller
Returns(c) ==
    /\ call = NoCall
    /\ call' = c
    /\ UNCHANGED <<trie, bk, vocab, query, D, states, raw, inputs, gui>>

BKGetSimilarWords(q, t) ==
    Returns(QueryCall("bk_get_similar_words", q, t, -1, bk_get_similar_words(bk, q, t)))

NFAGetSimilarWords(q, t, N) ==
    Returns(QueryCall("nfa_get_similar_words", q, t, N, nfa_get_similar_words(trie, q, t, N)))

NFAIntersection(q, t) ==
    Returns(QueryCall("intersection_with_trie_dfs", q, t, -1,
                      intersection_with_trie_dfs(trie, q, t)))

TrieGetSuggestions(p, lim) ==
    Returns(QueryCall("trie_get_suggestions", p, 0, lim, trie_get_suggestions(trie, p, lim)))

BKGetSimilarWordsOrdered(q, t) ==
    Returns(QueryCall("bk_get_similar_words_ordered", q, t, -1,
                      bk_get_similar_words_ordered(bk, q, t)))

BKGetSuggestions(q, lim) ==
    Returns(QueryCall("bk_get_suggestions", q, tol(q), lim, bk_get_suggestions(bk, q, lim)))

LVGetSuggestions(q, lim) ==
    Returns(QueryCall("lv_get_suggestions", q, tol(q), lim, lv_get_suggestions(trie, q, lim)))

TrieCompleteFromPrefix(p) ==
    Returns(QueryCall("complete_from_prefix", p, 0, -1, complete_from_prefix(trie, p)))

TrieAllWords == Returns(QueryCall("all_words", <<>>, 0, -1, all_words(trie)))

TrieLookupWord(w) ==
    Returns(QueryCall("lookup_word", w, 0, -1, lookup_word(trie, w)))

\* helpers.levenshtein(s1, s2), called on its own
Levenshtein(s1, s2) ==
    Returns([op |-> "levenshtein", s1 |-> s1, s2 |-> s2, val |-> levenshtein(s1, s2)])

\* the caller takes the result of the operation
Return ==
    /\ call # NoCall
    /\ call' = NoCall
    /\ UNCHANGED <<trie, bk, vocab, query, D, states, raw, inputs, gui>>

Inserts == \E w \in Words : Insert(w)

BKSimilarQueries == \E q \in Words, t \in Tols : BKGetSimilarWords(q, t)

NFASimilarQueries == \E q \in Words, t \in Tols : NFAGetSimilarWords(q, t, -1)

NFAIntersectionQueries == \E q \in Words, t \in Tols : NFAIntersection(q, t)

TrieSuggestionQueries == \E p \in Words, lim \in Lims : TrieGetSuggestions(p, lim)

Next ==
    \/ Inserts
    \/ BKSimilarQueries
    \/ NFASimilarQueries
    \/ NFAIntersectionQueries
    \/ TrieSuggestionQueries
    \/ Return

Spec == Init /\ [][Next]_vars

\* building only
SpecInsert == Init /\ [][Inserts \/ Return]_vars

\* building, and BKTree.get_similar_words
SpecBKSimilar == Init /\ [][Inserts \/ BKSimilarQueries \/ Return]_vars

\* building, and LevenshteinNFA(q, t).get_similar_words(trie)
SpecNFASimilar == Init /\ [][Inserts \/ NFASimilarQueries \/ Return]_vars

\* building, and LevenshteinNFA(q, t).intersection_with_trie_dfs(trie)
SpecIntersection == Init /\ [][Inserts \/ NFAIntersectionQueries \/ Return]_vars

\* building, and Trie.get_suggestions
SpecTrieSuggest == Init /\ [][Inserts \/ TrieSuggestionQueries \/ Return]_vars

TrieLookupQueries == \E w \in Strs(MaxLen + 1) : TrieLookupWord(w)

\* building, and Trie.lookup_word
SpecTrieLookup == Init /\ [][Inserts \/ TrieLookupQueries \/ Return]_vars

\* the queries given to get_suggestions: every word, and longer ones of one letter
LongQueries == {[i \in 1..k |-> "a"] : k \in (MaxLen + 1)..MaxLong}

SuggestQueries == Words \cup LongQueries

BKOrderedQueries == \E q \in Words, t \in Tols : BKGetSimilarWordsOrdered(q, t)

BKSuggestQueries == \E q \in SuggestQueries, lim \in Lims : BKGetSuggestions(q, lim)

LVSuggestQueries == \E q \in SuggestQueries, lim \in Lims : LVGetSuggestions(q, lim)

\* building, and the two backends
SpecBackends ==
    Init /\ [][Inserts \/ BKOrderedQueries \/ BKSuggestQueries \/ LVSuggestQueries
                    \/ NFASimilarQueries \/ Return]_vars

\* LevenshteinNFA(q, t).get_similar_words(trie, N), N given
NLims == (-2)..MaxLim

NFALimitQueries ==
    \E q \in Words, t \in 0..MaxTol, N \in NLims : NFAGetSimilarWords(q, t, N)

SpecNFALimit == Init /\ [][Inserts \/ NFALimitQueries \/ Return]_vars

(***************************************************************************)
(* Two dictionaries of whole words, each loaded in any order and queried.  *)
(***************************************************************************)
W_the == <<"t", "h", "e">>
W_ten == <<"t", "e", "n">>
W_tea == <<"t", "e", "a">>
W_teh == <<"t", "e", "h">>
W_cat == <<"c", "a", "t">>
W_cats == <<"c", "a", "t", "s">>
W_car == <<"c", "a", "r">>
W_dog == <<"d", "o", "g">>
W_cot == <<"c", "o", "t">>

TehWords == {W_the, W_ten, W_tea}

CotWords == {W_cat, W_cats, W_car, W_dog}

\* make_trie(words) and make_bktree(words) after words[0], words drawn from dict
InitOver(dict) ==
    /\ \E w \in dict :
          /\ trie = trie_insert(TrieInit, w)
          /\ bk = BKTree(w)
          /\ vocab = {w}
    /\ call = NoCall
    /\ NFAIdle
    /\ GUIIdle

TehInserts == \E w \in TehWords : InsertWord(w)

TehQueries ==
    \E q \in TehWords \cup {W_teh}, t \in 0..MaxTol : NFAGetSimilarWords(q, t, -1)

SpecTeh == InitOver(TehWords) /\ [][TehInserts \/ TehQueries \/ Return]_vars

CotInserts == \E w \in CotWords : InsertWord(w)

CotQueries ==
    \E q \in CotWords \cup {W_cot}, t \in 0..MaxTol : BKGetSimilarWordsOrdered(q, t)

SpecCot == InitOver(CotWords) /\ [][CotInserts \/ CotQueries \/ Return]_vars

\* a dictionary with words of three lengths under one prefix
W_cart == <<"c", "a", "r", "t">>

CaDict == CotWords \cup {W_cart}

CaPrefixes == {<<>>, <<"c">>, <<"c", "a">>, W_car, W_cat, <<"d">>, <<"c", "o">>}

CaLims == 0..(MaxLim + 1)

CaInserts == \E w \in CaDict : InsertWord(w)

CaQueries == \E p \in CaPrefixes, lim \in CaLims : TrieGetSuggestions(p, lim)

SpecCa == InitOver(CaDict) /\ [][CaInserts \/ CaQueries \/ Return]_vars

TrieCompleteQueries == \E p \in Strs(MaxLen + 1) : TrieCompleteFromPrefix(p)

\* building, and Trie.complete_from_prefix
SpecTrieComplete == Init /\ [][Inserts \/ TrieCompleteQueries \/ Return]_vars

\* building, and the trie's two prefix operations
SpecTriePrefix ==
    Init /\ [][Inserts \/ TrieSuggestionQueries \/ TrieCompleteQueries \/ Return]_vars

\* building, and every query of the trie, the BK-tree and the automaton
SpecQueries ==
    Init /\ [][Inserts \/ TrieLookupQueries \/ TrieCompleteQueries \/ TrieSuggestionQueries
                    \/ TrieAllWords \/ BKSimilarQueries \/ BKOrderedQueries
                    \/ BKSuggestQueries \/ LVSuggestQueries \/ NFAIntersectionQueries
                    \/ Return]_vars

(***************************************************************************)
(* The editor: the dictionary is loaded once into the trie and the         *)
(* backend, then events arrive.  A key or button release leaves some word  *)
(* w between the mark 'start' and the cursor (_set_word_start) and         *)
(* _update_suggestions runs; Control with a key runs _replace.             *)
(***************************************************************************)
DictLists == UNION {[1..k -> Words] : k \in 1..MaxDict}

TextWords == Words \cup {<<".">>}

Keysyms == {"1", "2", "3", "4", "5", "6", "7", "a", "Control_L"}

\* ACHandler.__init__
InitGUI ==
    /\ \E words \in DictLists :
          /\ trie = make_trie(words)
          /\ bk = make_bktree(words)
          /\ vocab = SeqSet(words)
    /\ which \in {"lv", "bk"}
    /\ cur_word = <<>>
    /\ _prev_word = <<>>
    /\ _suggestions = <<>>
    /\ call = NoCall
    /\ NFAIdle

\* _key_released and _button_pressed: _set_word_start, then _update_suggestions
Released(op, w) ==
    /\ call = NoCall
    /\ call' = [op |-> op, word |-> w]
    /\ cur_word' = w
    /\ LET upd == update_suggestions(which, trie, bk, w, _prev_word, _suggestions)
       IN  _prev_word' = upd[1] /\ _suggestions' = upd[2]
    /\ UNCHANGED <<trie, bk, vocab, which, query, D, states, raw, inputs>>

KeyReleased == \E w \in TextWords : Released("_key_released", w)

ButtonPressed == \E w \in TextWords : Released("_button_pressed", w)

\* ACHandler._replace
Replace(keysym) ==
    /\ call = NoCall
    /\ call' = [op |-> "_replace", keysym |-> keysym, old_word |-> cur_word]
    /\ IF keysym_is_choice(keysym) /\ keysym_int(keysym) <= Len(_suggestions)
       THEN cur_word' = _suggestions[keysym_int(keysym)]
       ELSE UNCHANGED cur_word
    /\ UNCHANGED <<trie, bk, vocab, which, _prev_word, _suggestions,
                   query, D, states, raw, inputs>>

ControlKey == \E keysym \in Keysyms : Replace(keysym)

SpecGUI == InitGUI /\ [][KeyReleased \/ ButtonPressed \/ ControlKey \/ Return]_vars

(***************************************************************************)
(* The edit-distance primitive alone: no structure is built.               *)
(***************************************************************************)
InitLev ==
    /\ trie = TrieInit
    /\ bk = <<>>
    /\ vocab = {}
    /\ call = NoCall
    /\ NFAIdle
    /\ GUIIdle

LevenshteinCalls == \E s1, s2 \in Strs(MaxQuery) : Levenshtein(s1, s2)

SpecLev == InitLev /\ [][LevenshteinCalls \/ Return]_vars

(***************************************************************************)
(* The automaton alone, as levenshtein_using_nfa drives it: constructed    *)
(* for a query and a budget, then stepped over an input one character at a *)
(* time.  raw is stepped alongside with the base class's simplify.         *)
(***************************************************************************)
InitNFA ==
    /\ query \in Strs(MaxQuery)
    /\ D \in 0..MaxTol
    /\ states = initial_states(D)
    /\ raw = initial_states(D)
    /\ inputs = <<>>
    /\ trie = TrieInit
    /\ bk = <<>>
    /\ vocab = {}
    /\ call = NoCall
    /\ GUIIdle

\* one iteration of step_all's loop
NFAStep(c) ==
    /\ Len(inputs) < MaxInput
    /\ states' = step(query, states, c)
    /\ raw' = step_base(query, raw, c)
    /\ inputs' = Append(inputs, c)
    /\ UNCHANGED <<query, D, trie, bk, vocab, call, gui>>

NextNFA == \E c \in Alphabet : NFAStep(c)

SpecNFA == InitNFA /\ [][NextNFA]_vars


(***************************************************************************)
(* Vocabulary of the properties.                                           *)
(***************************************************************************)
\* the words held by the nodes of a BK-tree
StoredWords(b) == {b[i].word : i \in 1..Len(b)}

\* the number of edges of a BK-tree
EdgeCount(b) ==
    Cardinality({<<i, k>> \in (1..Len(b)) \X (1..Len(b)) : k <= Len(b[i].children)})

\* the words of a trie: the paths to its word-terminal nodes
TrieWords(t) == {p \in DOMAIN t : t[p].is_word}

IsPrefix(p, w) == Len(p) <= Len(w) /\ SubSeq(w, 1, Len(p)) = p

\* the number of times x occurs in a list
Count(x, s) == Cardinality({i \in 1..Len(s) : s[i] = x})

\* the strings the properties range over
Strings == Strs(MaxLen + 1)

IsBKSimilar == call.op = "bk_get_similar_words"

(***************************************************************************)
(* C1.  A non-empty vocabulary word w is in BKTree.get_similar_words(q, t) *)
(* exactly when levenshtein(w, q) <= t, for every tree built by inserts,   *)
(* every query q and every tolerance t >= 0.                               *)
(***************************************************************************)
C1_BKSimilarExact ==
    (IsBKSimilar /\ call.n >= 0) =>
        \A w \in vocab \ {<<>>} :
            InSeq(w, call.val) <=> levenshtein(w, call.word) <= call.n

\* a three-node tree with a chain below the root, one word found and one not
C1_Witness ==
    /\ IsBKSimilar /\ call.n >= 1
    /\ Len(bk) = 3 /\ bk[2].children # <<>>
    /\ \E w, v \in vocab \ {<<>>} : InSeq(w, call.val) /\ ~InSeq(v, call.val)

(***************************************************************************)
(* C2.  Over a shared vocabulary the words LevenshteinNFA(q, t) finds in   *)
(* the trie are exactly the words BKTree.get_similar_words(q, t) returns.  *)
(***************************************************************************)
C2_BackendsAgree ==
    call.op = "nfa_get_similar_words" =>
        SeqSet(call.val) = SeqSet(bk_get_similar_words(bk, call.word, call.n))

(***************************************************************************)
(* C3.  intersection_with_trie_dfs returns exactly one pair (e, w) for     *)
(* every word w of the trie with levenshtein(w, Q) <= D and no other pair, *)
(* each e is levenshtein(w, Q), and the pairs are in non-decreasing order  *)
(* of e.                                                                   *)
(***************************************************************************)
C3_IntersectionExact ==
    (call.op = "intersection_with_trie_dfs" /\ call.n >= 0) =>
        /\ \A w \in TrieWords(trie) :
              levenshtein(w, call.word) <= call.n =>
                  Cardinality({i \in 1..Len(call.val) : call.val[i][2] = w}) = 1
        /\ \A i \in 1..Len(call.val) :
              /\ call.val[i][2] \in TrieWords(trie)
              /\ levenshtein(call.val[i][2], call.word) <= call.n
              /\ call.val[i][1] = levenshtein(call.val[i][2], call.word)
        /\ \A i, j \in 1..Len(call.val) : i <= j => call.val[i][1] <= call.val[j][1]

(***************************************************************************)
(* C4.  Stepping the automaton of query s2 and budget D over the input s1  *)
(* and taking accept_best gives levenshtein(s1, s2) when that is at most   *)
(* D, and the sentinel -1 when it is more.                                 *)
(***************************************************************************)
C4_NFAComputesDistance ==
    accept_best(query, D, states) =
        (IF levenshtein(inputs, query) <= D THEN levenshtein(inputs, query) ELSE -1)

(***************************************************************************)
(* C5.  Subsumption safety: after any input, accept_best of the state set  *)
(* stepped with simplify equals accept_best of the state set stepped with  *)
(* no simplification.                                                      *)
(***************************************************************************)
C5_SimplifySafe == accept_best(query, D, states) = accept_best(query, D, raw)

\* simplify has removed states, and the input is accepted with edits used
C5_Witness ==
    /\ Len(inputs) >= 2
    /\ states # raw
    /\ accept_best(query, D, raw) >= 1

(***************************************************************************)
(* C6.  Pruning correctness: the result set of get_similar_words is the    *)
(* set of the words of all the nodes of the tree within the tolerance of   *)
(* the query.                                                              *)
(***************************************************************************)
C6_PruningExact ==
    IsBKSimilar =>
        SeqSet(call.val) =
            {w \in StoredWords(bk) : levenshtein(w, call.word) <= call.n}

\* an edge of the root lies outside the window, and words are found
C6_Witness ==
    /\ IsBKSimilar /\ call.n >= 0 /\ call.val # <<>>
    /\ \E i \in 1..Len(bk[1].children) :
          LET dist == levenshtein(bk[1].word, call.word)
          IN  bk[1].children[i][1] < dist - call.n \/ bk[1].children[i][1] > dist + call.n

(***************************************************************************)
(* C7.  Trie.get_suggestions(prefix, limit) with limit >= 0 returns at     *)
(* most limit words, each starting with prefix and each a word by          *)
(* lookup_word; for a prefix that is no path of the trie it returns the    *)
(* empty list.                                                             *)
(***************************************************************************)
C7_TrieSuggestionsBound ==
    (call.op = "trie_get_suggestions" /\ call.lim >= 0) =>
        /\ Len(call.val) <= call.lim
        /\ \A i \in 1..Len(call.val) :
              IsPrefix(call.word, call.val[i]) /\ lookup_word(trie, call.val[i])
        /\ call.word \notin DOMAIN trie => call.val = <<>>

\* the limit cuts the list short: more words start with the prefix
C7_Witness ==
    /\ call.op = "trie_get_suggestions" /\ call.lim >= 1
    /\ Len(call.val) = call.lim
    /\ Cardinality({w \in TrieWords(trie) : IsPrefix(call.word, w)}) > call.lim

(***************************************************************************)
(* C8.  Trie insert is idempotent: inserting a word again, or a case       *)
(* variant of it, leaves lookup_word of every string and the multiset      *)
(* all_words() as they were.                                               *)
(***************************************************************************)
C8_TrieInsertIdempotent ==
    (call.op = "insert" /\ \E v \in call.old_vocab : lower(v) = lower(call.word)) =>
        /\ \A s \in Strings : lookup_word(trie, s) = lookup_word(call.old_trie, s)
        /\ \A s \in Strings :
              Count(s, all_words(trie)) = Count(s, all_words(call.old_trie))
        /\ SeqSet(all_words(trie)) \subseteq Strings

\* a case variant of an earlier word is inserted into a trie of two words
C8_Witness ==
    /\ call.op = "insert"
    /\ call.word \notin call.old_vocab
    /\ \E v \in call.old_vocab : lower(v) = lower(call.word)
    /\ Len(all_words(trie)) >= 2

(***************************************************************************)
(* C9.  BK-tree insert is idempotent: inserting a word some node already   *)
(* holds creates no node and no edge.                                      *)
(***************************************************************************)
C9_BKInsertIdempotent ==
    (call.op = "insert" /\ call.word \in StoredWords(call.old_bk)) =>
        /\ Len(bk) = Len(call.old_bk)
        /\ EdgeCount(bk) = EdgeCount(call.old_bk)

\* the word inserted again is held by a grandchild of the root
C9_Witness ==
    /\ call.op = "insert"
    /\ Len(call.old_bk) = 3
    /\ call.old_bk[2].children # <<>>
    /\ call.old_bk[3].word = call.word

(***************************************************************************)
(* C10.  Inserting the empty string is a no-op for both structures: no     *)
(* trie node is created, no is_word flag changes, all_words() and the      *)
(* words the BK-tree holds are unchanged.                                  *)
(***************************************************************************)
C10_EmptyInsertNoOp ==
    (call.op = "insert" /\ call.word = <<>>) =>
        /\ DOMAIN trie = DOMAIN call.old_trie
        /\ \A p \in DOMAIN trie : trie[p].is_word = call.old_trie[p].is_word
        /\ all_words(trie) = all_words(call.old_trie)
        /\ Len(bk) = Len(call.old_bk)
        /\ EdgeCount(bk) = EdgeCount(call.old_bk)
        /\ StoredWords(bk) = StoredWords(call.old_bk)

\* the empty string is inserted into structures that hold two words
C10_Witness ==
    /\ call.op = "insert" /\ call.word = <<>>
    /\ Len(call.old_bk) >= 2
    /\ <<>> \notin StoredWords(call.old_bk)
    /\ Cardinality(TrieWords(call.old_trie)) >= 2

(***************************************************************************)
(* C11.  lookup_word(s) is true exactly when the lower-case form of s is   *)
(* the lower-case form of some inserted non-empty word (so it is           *)
(* case-insensitive and false for a prefix that was never inserted), and   *)
(* a string looked up as a word stays one under every later insert.        *)
(***************************************************************************)
C11_LookupExact ==
    /\ call.op = "lookup_word" =>
          (call.val <=> \E v \in vocab \ {<<>>} : lower(v) = lower(call.word))
    /\ call.op = "insert" =>
          \A s \in Strings : lookup_word(call.old_trie, s) => lookup_word(trie, s)

\* an upper-case spelling is found, and a proper prefix of a word is not
C11_Witness ==
    /\ call.op = "lookup_word" /\ call.val
    /\ call.word \notin vocab /\ lower(call.word) # call.word
    /\ \E p \in DOMAIN trie : p # <<>> /\ ~lookup_word(trie, p)

\* the minimum number of single-character insertions, deletions and
\* substitutions turning a into b, by the recursive definition
RECURSIVE EditDistance(_, _)
EditDistance(a, b) ==
    IF a = <<>> THEN Len(b)
    ELSE IF b = <<>> THEN Len(a)
    ELSE IF Head(a) = Head(b) THEN EditDistance(Tail(a), Tail(b))
    ELSE 1 + Min(EditDistance(Tail(a), Tail(b)),
                 Min(EditDistance(Tail(a), b), EditDistance(a, Tail(b))))

(***************************************************************************)
(* C12.  helpers.levenshtein(s1, s2) is the minimum number of              *)
(* single-character insertions, deletions and substitutions turning s1     *)
(* into s2; with an empty argument it is the length of the other string.   *)
(***************************************************************************)
C12_LevenshteinIsEditDistance ==
    call.op = "levenshtein" =>
        /\ call.val = EditDistance(call.s1, call.s2)
        /\ call.s1 = <<>> => call.val = Len(call.s2)
        /\ call.s2 = <<>> => call.val = Len(call.s1)

\* an insertion, a substitution and a match are all needed
C12_Witness ==
    /\ call.op = "levenshtein"
    /\ Len(call.s1) = 2 /\ Len(call.s2) = 3
    /\ call.val = 2

(***************************************************************************)
(* C13.  helpers.levenshtein is a metric: symmetric, zero exactly between  *)
(* equal strings, and it satisfies the triangle inequality.                *)
(***************************************************************************)
C13_LevenshteinIsMetric ==
    call.op = "levenshtein" =>
        /\ call.val = levenshtein(call.s2, call.s1)
        /\ call.val = 0 <=> call.s1 = call.s2
        /\ \A b \in Strs(MaxQuery) :
              call.val <= levenshtein(call.s1, b) + levenshtein(b, call.s2)

\* the triangle inequality is tight through a third string
C13_Witness ==
    /\ call.op = "levenshtein" /\ call.val = 2
    /\ \E b \in Strs(MaxQuery) :
          /\ b # call.s1 /\ b # call.s2
          /\ levenshtein(call.s1, b) + levenshtein(b, call.s2) = 2

IsBKSuggest == call.op = "bk_get_suggestions"

IsLVSuggest == call.op = "lv_get_suggestions"

\* the words a backend holds
HeldWords == IF IsLVSuggest THEN TrieWords(trie) ELSE StoredWords(bk)

\* the adaptive tolerance as the specification states it
T(word) == Min(3, Max(Len(word) \div 2, 1))

(***************************************************************************)
(* C14.  get_suggestions(word, lim) of either backend returns at most lim  *)
(* words when lim >= 0.                                                    *)
(***************************************************************************)
C14_SuggestionsBound ==
    ((IsBKSuggest \/ IsLVSuggest) /\ call.lim >= 0) => Len(call.val) <= call.lim

\* the limit cuts the automaton's list short
C14_Witness ==
    /\ IsLVSuggest /\ call.lim >= 1
    /\ Len(call.val) = call.lim
    /\ Len(nfa_get_similar_words(trie, call.word, call.n, -1)) > call.lim

(***************************************************************************)
(* C15.  Both backends rank best-first: get_suggestions and                *)
(* get_similar_words_ordered list words in non-decreasing Levenshtein      *)
(* distance to the query, and a held word within the tolerance that is     *)
(* left out is at least as far from the query as every word returned.      *)
(***************************************************************************)
C15_BestFirst ==
    /\ (IsBKSuggest \/ IsLVSuggest \/ call.op = "bk_get_similar_words_ordered") =>
          \A i, j \in 1..Len(call.val) :
              i <= j => levenshtein(call.val[i], call.word)
                            <= levenshtein(call.val[j], call.word)
    /\ ((IsBKSuggest \/ IsLVSuggest) /\ call.lim >= 0) =>
          \A w \in HeldWords :
              (levenshtein(w, call.word) <= call.n /\ ~InSeq(w, call.val)) =>
                  \A i \in 1..Len(call.val) :
                      levenshtein(call.val[i], call.word) <= levenshtein(w, call.word)

(***************************************************************************)
(* C16.  Both backends use the tolerance T(word) = min(3, max(len(word)    *)
(* // 2, 1)), which lies in 1..3: every word get_suggestions returns is    *)
(* within T(word) of word, and when fewer than lim words are returned      *)
(* every held word within T(word) is among them.                           *)
(***************************************************************************)
C16_AdaptiveTolerance ==
    ((IsBKSuggest \/ IsLVSuggest) /\ call.lim >= 0) =>
        /\ call.n = T(call.word) /\ call.n \in 1..3
        /\ \A i \in 1..Len(call.val) : levenshtein(call.val[i], call.word) <= T(call.word)
        /\ Len(call.val) < call.lim =>
              \A w \in HeldWords :
                  levenshtein(w, call.word) <= T(call.word) => InSeq(w, call.val)

\* a query of four letters, tolerance 2: a word at distance 2 is returned
C16_Witness ==
    /\ IsLVSuggest /\ call.lim >= 1
    /\ T(call.word) = 2
    /\ \E i \in 1..Len(call.val) : levenshtein(call.val[i], call.word) = 2
    /\ Len(call.val) < call.lim

(***************************************************************************)
(* C18.  Malformed configuration is rejected: get_suggestions with a limit *)
(* <= 0 never returns a non-empty list, and no automaton has a state with  *)
(* a negative budget.                                                      *)
(***************************************************************************)
C18_MalformedRejected ==
    /\ ((IsBKSuggest \/ IsLVSuggest) /\ call.lim <= 0) => call.val = <<>>
    /\ call.op = "nfa_get_similar_words" =>
          \A st \in initial_states(call.n) : st[2] >= 0

IsNFASimilar == call.op = "nfa_get_similar_words"

\* the intersection the call's automaton computes, and its words in order
CallIntersection == intersection_with_trie_dfs(trie, call.word, call.n)

CallMatches == [i \in 1..Len(CallIntersection) |-> CallIntersection[i][2]]

\* the returned words come in ascending order of the edits the automaton reports
AscendingEdits ==
    /\ \A i \in 1..(Len(CallIntersection) - 1) :
          CallIntersection[i][1] <= CallIntersection[i + 1][1]
    /\ \A i \in 1..Len(call.val) : call.val[i] = CallMatches[i]

(***************************************************************************)
(* C17, as stated.  get_similar_words(trie, limit) returns the first       *)
(* min(limit, total) words of the intersection for limit >= 0, and all     *)
(* matching words when limit is unspecified or any negative number, in     *)
(* ascending order of edits.                                               *)
(***************************************************************************)
C17_AnyNegativeIsAll ==
    IsNFASimilar =>
        /\ call.lim >= 0 =>
              call.val = SubSeq(CallMatches, 1, Min(call.lim, Len(CallMatches)))
        /\ call.lim < 0 => call.val = CallMatches
        /\ AscendingEdits

(***************************************************************************)
(* C17, amended.  get_similar_words(trie, limit) returns the first         *)
(* min(limit, total) words of the intersection for limit >= 0, all         *)
(* matching words when limit is unspecified or -1, and the empty list for  *)
(* any other negative limit, in ascending order of edits.                  *)
(***************************************************************************)
C17_OnlyMinusOneIsAll ==
    IsNFASimilar =>
        /\ call.lim >= 0 =>
              call.val = SubSeq(CallMatches, 1, Min(call.lim, Len(CallMatches)))
        /\ call.lim = -1 => call.val = CallMatches
        /\ call.lim < -1 => call.val = <<>>
        /\ AscendingEdits

\* limit -2 over a trie with two matching words: nothing is returned
C17_Witness ==
    /\ IsNFASimilar /\ call.lim = -2
    /\ Len(CallMatches) >= 2
    /\ call.val = <<>>

TehCase ==
    /\ IsNFASimilar /\ vocab = TehWords
    /\ call.word = W_teh /\ call.n = 1 /\ call.lim = -1

(***************************************************************************)
(* C19, as stated.  With a trie holding the, ten and tea, the automaton    *)
(* with Q = "teh" and D = 1 returns ["the"] from get_similar_words, with   *)
(* 1 edit.                                                                 *)
(***************************************************************************)
C19_TehGivesThe ==
    TehCase =>
        /\ call.val = <<W_the>>
        /\ CallIntersection = <<<<1, W_the>>>>

(***************************************************************************)
(* C19, amended.  With a trie holding the, ten and tea, the automaton with *)
(* Q = "teh" and D = 1 returns ten and tea from get_similar_words, in the  *)
(* order the trie holds them, each with 1 edit (a substitution); "the" is  *)
(* two edits from "teh" (there is no transposition edit) and is left out.  *)
(***************************************************************************)
C19_TehGivesTenTea ==
    TehCase =>
        /\ Len(call.val) = 2 /\ SeqSet(call.val) = {W_ten, W_tea}
        /\ SeqSet(CallIntersection) = {<<1, W_ten>>, <<1, W_tea>>}
        /\ levenshtein(W_the, W_teh) = 2
        /\ call.val = <<W_ten, W_tea>> <=> trie[<<"t", "e">>].children = <<"n", "a">>

C19_Witness == TehCase /\ call.val = <<W_ten, W_tea>>

CotCase ==
    /\ call.op = "bk_get_similar_words_ordered" /\ vocab = CotWords
    /\ call.word = W_cot /\ call.n = 2

(***************************************************************************)
(* C20, as stated.  With a BK-tree holding cat, cats, car and dog,         *)
(* get_similar_words_ordered("cot", 2) returns "cat" first (distance 1)    *)
(* followed only by words at distance 2, and does not contain "dog".       *)
(***************************************************************************)
C20_CotExcludesDog ==
    CotCase =>
        /\ Len(call.val) >= 1 /\ call.val[1] = W_cat
        /\ levenshtein(W_cat, W_cot) = 1
        /\ \A i \in 2..Len(call.val) : levenshtein(call.val[i], W_cot) = 2
        /\ ~InSeq(W_dog, call.val)

(***************************************************************************)
(* C20, amended.  With a BK-tree holding cat, cats, car and dog,           *)
(* get_similar_words_ordered("cot", 2) returns "cat" first (distance 1)    *)
(* followed by cats, car and dog, each at distance 2, in the order the     *)
(* traversal meets them; "dog" is two substitutions from "cot" and is      *)
(* contained.                                                              *)
(***************************************************************************)
C20_CotIncludesDog ==
    CotCase =>
        /\ Len(call.val) = 4 /\ call.val[1] = W_cat
        /\ levenshtein(W_cat, W_cot) = 1
        /\ \A i \in 2..Len(call.val) : levenshtein(call.val[i], W_cot) = 2
        /\ SeqSet(call.val) = CotWords
        /\ levenshtein(W_dog, W_cot) = 2

\* the tree rooted at dog: the sort moves cat ahead of the root
C20_Witness == CotCase /\ bk[1].word = W_dog /\ call.val[2] = W_dog

IsTrieSuggest == call.op = "trie_get_suggestions"

\* the position of x in a list that holds it
IndexOf(x, s) == CHOOSE i \in 1..Len(s) : s[i] = x

\* the first position at which two different words of one length differ
FirstDiff(u, v) == CHOOSE k \in 1..Len(u) : u[k] # v[k] /\ \A h \in 1..(k - 1) : u[h] = v[h]

\* u comes before v in the child enumeration order of the trie
ChildOrderBefore(u, v) ==
    LET k == FirstDiff(u, v)
        ch == trie[SubSeq(u, 1, k - 1)].children
    IN  IndexOf(u[k], ch) < IndexOf(v[k], ch)

(***************************************************************************)
(* C21.  Trie.get_suggestions(prefix, limit) emits words in breadth-first  *)
(* order: lengths are non-decreasing, no word under the prefix that is     *)
(* left out is shorter than a returned word, and words of equal length     *)
(* come in child insertion order; over cat, cats and car with prefix "ca"  *)
(* and limit 3 all three are returned, cat and car before cats.            *)
(***************************************************************************)
C21_BreadthFirst ==
    IsTrieSuggest =>
        /\ \A i, j \in 1..Len(call.val) :
              i < j =>
                  /\ Len(call.val[i]) <= Len(call.val[j])
                  /\ Len(call.val[i]) = Len(call.val[j]) =>
                        ChildOrderBefore(call.val[i], call.val[j])
        /\ \A w \in TrieWords(trie) :
              (IsPrefix(call.word, w) /\ ~InSeq(w, call.val)) =>
                  \A i \in 1..Len(call.val) : Len(call.val[i]) <= Len(w)
        /\ (vocab = {W_cat, W_cats, W_car} /\ call.word = <<"c", "a">> /\ call.lim = 3) =>
              /\ Len(call.val) = 3
              /\ SeqSet(call.val) = vocab
              /\ call.val[3] = W_cats

\* car was inserted before cat, and comes first
C21_Witness ==
    /\ IsTrieSuggest /\ vocab = {W_cat, W_cats, W_car}
    /\ call.word = <<"c", "a">> /\ call.lim = 3
    /\ call.val = <<W_car, W_cat, W_cats>>

IsComplete == call.op = "complete_from_prefix"

(***************************************************************************)
(* C22.  complete_from_prefix(prefix) returns the empty string when prefix *)
(* is not a path in the trie; otherwise it returns a word that starts with *)
(* prefix and satisfies lookup_word, reached from the prefix's node by     *)
(* following the first-inserted child until a word-terminal node; the      *)
(* dead-end empty result occurs only for the empty prefix on a trie that   *)
(* holds no word.                                                          *)
(***************************************************************************)
C22_CompleteFromPrefix ==
    IsComplete =>
        /\ call.word \notin DOMAIN trie => call.val = <<>>
        /\ (call.word \in DOMAIN trie /\ call.val # <<>>) =>
              /\ IsPrefix(call.word, call.val)
              /\ lookup_word(trie, call.val)
              /\ \A k \in (Len(call.word) + 1)..Len(call.val) :
                    /\ ~trie[SubSeq(call.val, 1, k - 1)].is_word
                    /\ call.val[k] = trie[SubSeq(call.val, 1, k - 1)].children[1]
        /\ (call.word \in DOMAIN trie /\ call.val = <<>>) =>
              call.word = <<>> /\ TrieWords(trie) = {}

\* two children are followed, the first past a later-inserted sibling
C22_Witness ==
    /\ IsComplete /\ call.word = <<>>
    /\ Len(call.val) = 2
    /\ Len(trie[<<>>].children) >= 2

IsQuery(c) == c.op \notin {"none", "insert", "levenshtein"}

\* what the query recorded in c returns on the structures as they are now
QueryResult(c) ==
    CASE c.op = "lookup_word" -> lookup_word(trie, c.word)
      [] c.op = "complete_from_prefix" -> complete_from_prefix(trie, c.word)
      [] c.op = "trie_get_suggestions" -> trie_get_suggestions(trie, c.word, c.lim)
      [] c.op = "all_words" -> all_words(trie)
      [] c.op = "bk_get_similar_words" -> bk_get_similar_words(bk, c.word, c.n)
      [] c.op = "bk_get_similar_words_ordered" -> bk_get_similar_words_ordered(bk, c.word, c.n)
      [] c.op = "bk_get_suggestions" -> bk_get_suggestions(bk, c.word, c.lim)
      [] c.op = "lv_get_suggestions" -> lv_get_suggestions(trie, c.word, c.lim)
      [] c.op = "intersection_with_trie_dfs" -> intersection_with_trie_dfs(trie, c.word, c.n)
      [] c.op = "nfa_get_similar_words" -> nfa_get_similar_words(trie, c.word, c.n, c.lim)

C24_StatesInRange ==
    \A st \in states : st[1] \in 0..Len(query) /\ st[2] \in 0..D

\* state A subsumes state B, as the specification states it
Subsumes(A, B) == B[2] < 0 \/ A[2] - B[2] >= abs(A[1] - B[1])

(***************************************************************************)
(* C25.  For any query, budget D >= 0 and input, the state set step        *)
(* returns holds at most 2 * D + 1 states, whatever len(Q), and no         *)
(* retained state subsumes another.                                        *)
(***************************************************************************)
C25_SimplifiedSetBound ==
    /\ Cardinality(states) <= 2 * D + 1
    /\ \A s1, s2 \in states : s1 # s2 => ~Subsumes(s1, s2)

\* a step has returned a set that meets the bound
C25_Witness ==
    /\ D >= 1 /\ inputs # <<>>
    /\ Cardinality(states) = 2 * D + 1

\* the nodes of the subtree of b rooted at node i
RECURSIVE Subtree(_, _)
Subtree(b, i) ==
    {i} \cup UNION {Subtree(b, b[i].children[k][2]) : k \in 1..Len(b[i].children)}

(***************************************************************************)
(* C26.  After any sequence of BKTree.insert calls, for every node n and   *)
(* every edge of n with key k to child c: k >= 1, the keys of n's edges    *)
(* are pairwise distinct, and every word stored in the subtree of c is at  *)
(* Levenshtein distance exactly k from n.word.                             *)
(***************************************************************************)
C26_BKTreeShape ==
    \A n \in 1..Len(bk) :
        \A e \in 1..Len(bk[n].children) :
            LET k == bk[n].children[e][1]
                c == bk[n].children[e][2]
            IN  /\ k >= 1
                /\ \A f \in 1..Len(bk[n].children) : f # e => bk[n].children[f][1] # k
                /\ \A d \in Subtree(bk, c) : levenshtein(bk[d].word, bk[n].word) = k

\* a collision was routed deeper: a node below the root has a child
C26_Witness ==
    /\ call.op = "insert"
    /\ Len(bk) > Len(call.old_bk)
    /\ \E n \in 2..Len(bk) : bk[n].children # <<>>

(***************************************************************************)
(* C27.  Across any sequence of Trie.insert calls, an is_word flag once    *)
(* true is never cleared, no node or edge is removed, the root is the only *)
(* node without a label and is never word-terminal, and every other node's *)
(* label is the key of the edge leading to it.                             *)
(***************************************************************************)
C27_TrieShape ==
    /\ trie[TrieRoot].letter = None /\ ~trie[TrieRoot].is_word
    /\ \A p \in DOMAIN trie \ {TrieRoot} :
          /\ trie[p].letter # None
          /\ trie[p].letter = p[Len(p)]
          /\ SubSeq(p, 1, Len(p) - 1) \in DOMAIN trie
          /\ InSeq(p[Len(p)], trie[SubSeq(p, 1, Len(p) - 1)].children)
    /\ call.op = "insert" =>
          \A p \in DOMAIN call.old_trie :
              /\ p \in DOMAIN trie
              /\ call.old_trie[p].is_word => trie[p].is_word
              /\ trie[p].letter = call.old_trie[p].letter
              /\ SubSeq(trie[p].children, 1, Len(call.old_trie[p].children))
                    = call.old_trie[p].children

\* an insert has walked through a word-terminal node and added a node below it
C27_Witness ==
    /\ call.op = "insert"
    /\ \E p \in TrieWords(call.old_trie) :
          /\ IsPrefix(p, lower(call.word)) /\ p # lower(call.word)
          /\ Len(trie[p].children) > Len(call.old_trie[p].children)

(***************************************************************************)
(* C28.  For any non-empty word list, the words stored in                  *)
(* make_bktree(words), root included, are exactly the distinct non-empty   *)
(* words of the list, whatever their order; the empty string is never      *)
(* stored and never returned by a similarity query.                        *)
(***************************************************************************)
C28_BKStoresNonEmptyWords ==
    /\ StoredWords(bk) = vocab \ {<<>>}
    /\ IsBKSimilar => ~InSeq(<<>>, call.val)

(***************************************************************************)
(* C29.  The trie's prefix operations agree with lookup_word on case: for  *)
(* any string s with lookup_word(s) true, get_suggestions(s, lim) with     *)
(* lim >= 1 returns a non-empty list and complete_from_prefix(s) returns a *)
(* non-empty word.                                                         *)
(***************************************************************************)
C29_PrefixAgreesWithLookup ==
    /\ (IsTrieSuggest /\ call.lim >= 1 /\ lookup_word(trie, call.word)) => call.val # <<>>
    /\ (IsComplete /\ lookup_word(trie, call.word)) => call.val # <<>>

\* the suggestions for word w: none for an empty word or a single character
\* that is not alphanumeric, else up to 3 completions, then up to 3
\* corrections unless w is spelled correctly
ExpectedSuggestions(w) ==
    IF w = <<>> \/ (Len(w) = 1 /\ w[1] \notin Alphabet) THEN <<>>
    ELSE LET comp == trie_get_suggestions(trie, w, 3)
             corr == IF lookup_word(trie, w) THEN <<>>
                     ELSE IF which = "lv" THEN lv_get_suggestions(trie, w, 3)
                     ELSE bk_get_suggestions(bk, w, 3)
         IN  SubSeq(comp, 1, Min(3, Len(comp))) \o SubSeq(corr, 1, Min(3, Len(corr)))

(***************************************************************************)
(* C30.  In the editor's handler, after any sequence of key-release,       *)
(* button-release and Control-key events, _suggestions is the suggestions  *)
(* for _prev_word, and _replace changes the text only when the chosen      *)
(* number is between 1 and len(_suggestions).                              *)
(***************************************************************************)
C30_SuggestionsTrackPrevWord ==
    /\ _suggestions = ExpectedSuggestions(_prev_word)
    /\ (call.op = "_replace" /\ cur_word # call.old_word) =>
          /\ call.keysym \in {"1", "2", "3", "4", "5", "6"}
          /\ \E n \in 1..Len(_suggestions) :
                keysym_int(call.keysym) = n /\ cur_word = _suggestions[n]

\* the second suggestion, a correction, has replaced the word typed
C30_Witness ==
    /\ call.op = "_replace" /\ call.keysym = "2"
    /\ cur_word # call.old_word
    /\ ~lookup_word(trie, _prev_word)
    /\ trie_get_suggestions(trie, _prev_word, 3) # <<>>

====
